---- MODULE Spec2Model ----
(***************************************************************************)
(* The counter and token client applications (counter-app, token-app) and  *)
(* the ledger they talk to.                                                *)
(*                                                                         *)
(* A client call is an async Rust function: it runs without interruption   *)
(* from one `.await` to the next.  The awaits are the two calls on the     *)
(* EssentialClient, query_state and submit_solution; the wallet calls      *)
(* (get_public_key, sign_words) are synchronous.  Each call therefore has  *)
(* one action that starts it and runs to its first await, and one action   *)
(* per await that delivers the answer and runs to the next await or to the *)
(* return.  The order of the steps inside one such segment is kept in the  *)
(* call's log.                                                             *)
(*                                                                         *)
(* The ledger is the environment: it holds the key/value state, answers    *)
(* queries from it, keeps the submitted solutions in a pool, and applies   *)
(* (all mutations of one solution at once) or rejects a pooled solution at *)
(* any later time.  Which solutions the predicates accept is not in this   *)
(* repository's client code, so the ledger may accept or reject any of     *)
(* them.  Other clients of the same ledger submit solutions of their own;  *)
(* of those only the accepted ones are seen, when the ledger applies them. *)
(*                                                                         *)
(* Words are i64 in the source.  Every value handled here stays far from   *)
(* the i64 limits, so `+` and `-` are the mathematical ones.               *)
(***************************************************************************)
EXTENDS Integers, Sequences, FiniteSets, TLC

VARIABLES
    state,      \* the ledger's storage: <<contract, key>> -> sequence of Words
    pool,       \* solutions submitted and neither applied nor rejected yet
    calls,      \* the client calls made so far, in the order they started
    wallet,     \* App.wallet: account name -> key
    applied,    \* ids of the calls whose solution the ledger applied, in order
                \* (0 for a solution of another client)
    rejected,   \* ids of the calls whose solution the ledger rejected
    written,    \* the slots some applied solution has written
    others      \* number of solutions of other clients the ledger has applied

vars == <<state, pool, calls, wallet, applied, rejected, written, others>>

-----------------------------------------------------------------------------
(* Bounds of the model *)

\* client calls made in one behaviour of Spec
MaxCalls == 2
\* increment calls made in one behaviour of SpecCounter
MaxIncrements == 3
\* solutions of other clients applied in one behaviour
MaxOthers == 1
\* largest amount minted or transferred
MaxAmount == 2

-----------------------------------------------------------------------------
(* Results: anyhow::Result<T> *)

Ok(v) == <<"Ok", v>>
Err(e) == <<"Err", e>>
IsOk(r) == r[1] = "Ok"
IsErr(r) == r[1] = "Err"
Pending == <<"Pending", 0>>

-----------------------------------------------------------------------------
(* Addresses *)

CounterContract == "counter"
TokenContract == "token"
IncrementPredicate == [contract |-> CounterContract, predicate |-> "Increment"]
MintPredicate == [contract |-> TokenContract, predicate |-> "Mint"]
TransferPredicate == [contract |-> TokenContract, predicate |-> "Transfer"]

-----------------------------------------------------------------------------
(* The wallet *)

Names == {"alice", "bob", "carol", "dave"}
Amounts == 0 .. MaxAmount

\* alice and bob hold Secp256k1 keys, carol a key of another scheme, and
\* dave is not in the wallet.
TestWallet ==
    [n \in {"alice", "bob", "carol"} |->
        IF n = "alice" THEN [scheme |-> "Secp256k1", key |-> 1]
        ELSE IF n = "bob" THEN [scheme |-> "Secp256k1", key |-> 2]
        ELSE [scheme |-> "Ed25519", key |-> 3]]

\* Wallet::get_public_key
get_public_key(w, account_name) ==
    IF account_name \in DOMAIN w
    THEN Ok([scheme |-> w[account_name].scheme, public |-> 10 * w[account_name].key])
    ELSE Err("get_public_key")

\* essential_hash::hash_words(encode::public_key(pk)) packed by word_4_from_u8_32:
\* four words, different for different public keys.
hash_public_key(public) == [i \in 1..4 |-> 10 * public + i]

\* a slip: the AccountId depends on the name
get_hashed_key_by_name(w, account_name) ==
    LET public_key == get_public_key(w, account_name)
    IN  IF IsErr(public_key) THEN public_key
        ELSE IF public_key[2].scheme # "Secp256k1" THEN Err("Invalid public key")
        ELSE IF account_name = "dave"
        THEN Ok(hash_public_key(30 - public_key[2].public))
        ELSE Ok(hash_public_key(public_key[2].public))

get_hashed_key(w, account_name) ==
    LET public_key == get_public_key(w, account_name)
    IN  IF IsErr(public_key) THEN public_key
        ELSE IF public_key[2].scheme # "Secp256k1" THEN Err("Invalid public key")
        ELSE Ok(hash_public_key(public_key[2].public))

RECURSIVE digest(_)
\* the message digest a signature is made over: depends on every word and
\* on its position
digest(data) ==
    IF data = <<>> THEN 7
    ELSE (31 * digest(SubSeq(data, 1, Len(data) - 1)) + data[Len(data)]) % 1009

\* Wallet::sign_words: wallet_ok is whether the wallet could sign at all
sign_words(w, data, account_name, wallet_ok) ==
    IF account_name \notin DOMAIN w \/ ~wallet_ok THEN Err("sign_words")
    ELSE Ok([scheme |-> w[account_name].scheme,
             signer |-> w[account_name].key,
             message |-> data])

\* essential_sign::encode::signature: nine words
encode_signature(sig) ==
    [i \in 1..9 |-> IF i <= 4 THEN 1000 * sig.signer + i
                    ELSE IF i <= 8 THEN 10 * digest(sig.message) + i
                    ELSE sig.signer % 2]

\* a slip: everything is signed with the key of alice
sign_data_as_alice(w, account_name, data, wallet_ok) ==
    LET sig == sign_words(w, data, "alice", wallet_ok)
    IN  IF IsErr(sig) THEN sig
        ELSE IF sig[2].scheme # "Secp256k1" THEN Err("Invalid signature")
        ELSE LET e == encode_signature(sig[2])
             IN  Ok(<<SubSeq(e, 1, 4), SubSeq(e, 5, 8), e[9]>>)

sign_data(w, account_name, data, wallet_ok) ==
    LET sig == sign_words(w, data, account_name, wallet_ok)
    IN  IF IsErr(sig) THEN sig
        ELSE IF sig[2].scheme # "Secp256k1" THEN Err("Invalid signature")
        ELSE LET e == encode_signature(sig[2])
             IN  Ok(<<SubSeq(e, 1, 4), SubSeq(e, 5, 8), e[9]>>)

-----------------------------------------------------------------------------
(* Storage keys, mutations and solutions *)

COUNTER_STORAGE_KEY == <<0>>

\* storage::mutations().counter(v)
counter(v) == [key |-> COUNTER_STORAGE_KEY, value |-> <<v>>]

\* storage::mutations().balances(|map| map.entry(k, v))
balances_entry(k, v) == [key |-> <<0>> \o k, value |-> <<v>>]

NoSolution == [data |-> <<>>]

\* a slip: the count read is proposed again
increment_new_count_same(current) == current

\* increment: `read_current_counter().await? + 1`
increment_new_count(current) == current + 1

\* a slip: the solution is returned without its mutation
create_solution_without_mutation(predicate_address, new_count) ==
    [data |-> <<[predicate_to_solve |-> predicate_address,
                 decision_variables |-> <<>>,
                 transient_data |-> <<>>,
                 state_mutations |-> <<>>]>>]

create_solution(predicate_address, new_count) ==
    [data |-> <<[predicate_to_solve |-> predicate_address,
                 decision_variables |-> <<>>,
                 transient_data |-> <<>>,
                 state_mutations |-> <<counter(new_count)>>]>>]

\* Mint::Vars { to, amount, signature }.into()
MintVars(to, amount, signature) ==
    <<to, <<amount>>, signature[1] \o signature[2] \o <<signature[3]>>>>

\* Transfer::Vars { from, to, amount, signature }.into()
TransferVars(from, to, amount, signature) ==
    <<from, to, <<amount>>, signature[1] \o signature[2] \o <<signature[3]>>>>

\* mint: `to.to_vec()` with `amount` pushed
mint_data_to_sign(to, amount) == to \o <<amount>>

\* a slip: the balance read is left out of the proposed balance
mint_new_balance_amount_only(current_balance, amount) == amount

mint_new_balance(current_balance, amount) == current_balance + amount

mint_solution(to, amount, signature, new_balance) ==
    [data |-> <<[predicate_to_solve |-> MintPredicate,
                 decision_variables |-> MintVars(to, amount, signature),
                 transient_data |-> <<>>,
                 state_mutations |-> <<balances_entry(to, new_balance)>>]>>]

\* a slip: the two accounts are signed in the other order
transfer_data_to_sign_swapped(from, to, amount) == (to \o from) \o <<amount>>

\* transfer: `from.to_vec()` extended by `to`, with `amount` pushed
transfer_data_to_sign(from, to, amount) == (from \o to) \o <<amount>>

\* a slip: a balance too small for the amount is brought to 0
transfer_new_from_balance_floored(current_from_balance, amount) ==
    IF current_from_balance < amount THEN 0 ELSE current_from_balance - amount

transfer_new_from_balance(current_from_balance, amount) ==
    current_from_balance - amount

transfer_new_to_balance(current_to_balance, amount) ==
    current_to_balance + amount

\* a slip: the mutation for `to` is left out
transfer_solution_debit_only(from, to, amount, signature, new_from_balance, new_to_balance) ==
    [data |-> <<[predicate_to_solve |-> TransferPredicate,
                 decision_variables |-> TransferVars(from, to, amount, signature),
                 transient_data |-> <<>>,
                 state_mutations |->
                     <<balances_entry(from, new_from_balance)>>]>>]

transfer_solution(from, to, amount, signature, new_from_balance, new_to_balance) ==
    [data |-> <<[predicate_to_solve |-> TransferPredicate,
                 decision_variables |-> TransferVars(from, to, amount, signature),
                 transient_data |-> <<>>,
                 state_mutations |->
                     <<balances_entry(from, new_from_balance),
                       balances_entry(to, new_to_balance)>>]>>]

-----------------------------------------------------------------------------
(* Reading a slot *)

\* read_current_counter's match on the queried value
counter_value(counter_value_words) ==
    IF Len(counter_value_words) = 0 THEN Ok(0)
    ELSE IF Len(counter_value_words) = 1 THEN Ok(counter_value_words[1])
    ELSE Err("Expected one word")

\* a slip: a value of several words is read as its first word
balance_value_first_word(balance_value_words) ==
    IF Len(balance_value_words) = 0 THEN Ok(0) ELSE Ok(balance_value_words[1])

\* a slip: a slot never set is not read as 0
balance_value_unset_fails(balance_value_words) ==
    IF Len(balance_value_words) = 1 THEN Ok(balance_value_words[1])
    ELSE Err("Expected one word")

\* balance's match on the queried value
balance_value(balance_value_words) ==
    IF Len(balance_value_words) = 0 THEN Ok(0)
    ELSE IF Len(balance_value_words) = 1 THEN Ok(balance_value_words[1])
    ELSE Err("Expected one word")

\* a slip: the answer given to the first call is used again by later calls
read_counter_result_cached(response) ==
    IF calls # <<>> /\ calls[1].kind = "increment" /\ calls[1].responses # <<>>
    THEN IF IsErr(calls[1].responses[1]) THEN calls[1].responses[1]
         ELSE counter_value(calls[1].responses[1][2])
    ELSE IF IsErr(response) THEN response ELSE counter_value(response[2])

\* `query_state(..).await?` followed by the match
read_counter_result(response) ==
    IF IsErr(response) THEN response ELSE counter_value(response[2])

\* a slip: a failed query is read as an unset slot
read_balance_result_defaulting(response) ==
    IF IsErr(response) THEN Ok(0) ELSE balance_value(response[2])

read_balance_result(response) ==
    IF IsErr(response) THEN response ELSE balance_value(response[2])

-----------------------------------------------------------------------------
(* The ledger's storage *)

AccountIds ==
    {hash_public_key(10 * k) : k \in {1, 2}}

CounterSlot == <<CounterContract, COUNTER_STORAGE_KEY>>
BalanceSlot(account) == <<TokenContract, balances_entry(account, 0).key>>

Slots == {CounterSlot} \cup {BalanceSlot(a) : a \in AccountIds}

\* what other clients write to a slot: one word, or two words
OtherValues == {<<1>>, <<1, 2>>}

\* the errors of the EssentialClient.  query_state and submit_solution are
\* calls on the same client, and the caller of either is handed the client's
\* error as it is (`.await?`, with no context added).
ClientErrors == {"ledger unreachable"}

\* EssentialClient::query_state: the stored words, or the client's error
QueryResponses(slot) == {Ok(state[slot])} \cup {Err(e) : e \in ClientErrors}

\* EssentialClient::submit_solution: the solution is with the ledger (its
\* content address is returned, which no caller looks at), or the client's
\* error
SubmitResponses == {Ok(0)} \cup {Err(e) : e \in ClientErrors}

RECURSIVE ApplyMutations(_, _, _)
\* the mutations of one unit of a solution, applied in order
ApplyMutations(st, contract, mutations) ==
    IF mutations = <<>> THEN st
    ELSE ApplyMutations(
             [st EXCEPT ![<<contract, Head(mutations).key>>] = Head(mutations).value],
             contract, Tail(mutations))

RECURSIVE ApplySolution(_, _)
ApplySolution(st, data) ==
    IF data = <<>> THEN st
    ELSE ApplySolution(
             ApplyMutations(st, Head(data).predicate_to_solve.contract,
                            Head(data).state_mutations),
             Tail(data))

SlotsOf(solution) ==
    UNION {{<<solution.data[i].predicate_to_solve.contract,
              solution.data[i].state_mutations[j].key>> :
               j \in DOMAIN solution.data[i].state_mutations} :
           i \in DOMAIN solution.data}



-----------------------------------------------------------------------------
(* Client calls *)

\* A call that has not run yet.  `log` lists the steps taken, each with the
\* function that takes it; `queried` the slots asked of query_state and
\* `responses` its answers; `solo`
\* whether every earlier call had returned when this one started; `settled`
\* whether, besides, every solution submitted before had been applied.
NewCall(kind, from_name, to_name, amount) ==
    [kind |-> kind, from_name |-> from_name, to_name |-> to_name,
     amount |-> amount, pc |-> "start", log |-> <<>>, slot |-> <<>>,
     queried |-> <<>>,
     responses |-> <<>>, from |-> <<>>, to |-> <<>>,
     current_balance |-> 0, current_from_balance |-> 0,
     current_to_balance |-> 0, new_count |-> 0,
     data_to_sign |-> <<>>, signed_as |-> "", signature |-> <<>>,
     solution |-> NoSolution, result |-> Pending,
     solo |-> \A i \in DOMAIN calls : calls[i].pc = "done",
     settled |-> /\ \A i \in DOMAIN calls : calls[i].pc = "done"
                 /\ pool = {}
                 /\ rejected = {}]

Fail(call, err) == [call EXCEPT !.pc = "done", !.result = err]

Answered(call, fn, response) ==
    [call EXCEPT !.responses = Append(@, response),
                 !.log = Append(@, <<fn, "query_state returned">>)]

\* read_current_counter up to `query_state(..).await`
read_current_counter_start(call, caller) ==
    [call EXCEPT !.pc = "query",
                 !.slot = <<IncrementPredicate.contract, counter(0).key>>,
                 !.queried = Append(@, <<IncrementPredicate.contract, counter(0).key>>),
                 !.log = @ \o <<<<caller, "read_current_counter">>,
                                <<"read_current_counter", "query_state">>>>]

\* balance up to `query_state(..).await`
balance_start(call, account_name, caller, pc) ==
    LET account_key == get_hashed_key(wallet, account_name)
        c1 == [call EXCEPT !.log = @ \o <<<<caller, "balance">>,
                                          <<"balance", "get_hashed_key">>>>]
    IN  IF IsErr(account_key) THEN Fail(c1, account_key)
        ELSE [c1 EXCEPT !.pc = pc,
                        !.slot = <<TokenContract, balances_entry(account_key[2], 0).key>>,
                        !.queried = Append(@,
                            <<TokenContract, balances_entry(account_key[2], 0).key>>),
                        !.log = Append(@, <<"balance", "query_state">>)]

\* increment up to its first await
increment_start(call) == read_current_counter_start(call, "increment")

\* increment from the answer of query_state up to `submit_solution(..).await`
increment_resume(call, response) ==
    LET current == read_counter_result(response)
        c1 == Answered(call, "read_current_counter", response)
    IN  IF IsErr(current) THEN Fail(c1, current)
        ELSE [c1 EXCEPT !.new_count = increment_new_count(current[2]),
                        !.solution = create_solution(IncrementPredicate,
                                                     increment_new_count(current[2])),
                        !.pc = "submit",
                        !.log = @ \o <<<<"create_solution", "Solution">>,
                                       <<"increment", "submit_solution">>>>]

\* read_current_counter from the answer of query_state to its return
read_current_counter_resume(call, response) ==
    [Answered(call, "read_current_counter", response)
        EXCEPT !.pc = "done", !.result = read_counter_result(response)]

\* balance from the answer of query_state to its return
balance_resume(call, response) ==
    [Answered(call, "balance", response)
        EXCEPT !.pc = "done", !.result = read_balance_result(response)]

\* mint up to its first await
mint_start(call) ==
    LET to == get_hashed_key(wallet, call.to_name)
        c1 == [call EXCEPT !.log = Append(@, <<"mint", "get_hashed_key">>)]
    IN  IF IsErr(to) THEN Fail(c1, to)
        ELSE balance_start([c1 EXCEPT !.to = to[2]], call.to_name, "mint", "query")

\* mint from the answer of query_state up to `submit_solution(..).await`
mint_resume(call, response, wallet_ok) ==
    LET current_balance == read_balance_result(response)
        c1 == Answered(call, "balance", response)
        data_to_sign == mint_data_to_sign(call.to, call.amount)
        signature == sign_data(wallet, call.to_name, data_to_sign, wallet_ok)
        c2 == [c1 EXCEPT !.current_balance = current_balance[2],
                         !.data_to_sign = data_to_sign,
                         !.signed_as = call.to_name,
                         !.log = Append(@, <<"mint", "sign_data">>)]
    IN  IF IsErr(current_balance) THEN Fail(c1, current_balance)
        ELSE IF IsErr(signature) THEN Fail(c2, signature)
        ELSE [c2 EXCEPT !.signature = signature[2],
                        !.solution =
                            mint_solution(call.to, call.amount, signature[2],
                                mint_new_balance(current_balance[2], call.amount)),
                        !.pc = "submit",
                        !.log = @ \o <<<<"mint", "Solution">>,
                                       <<"mint", "submit_solution">>>>]

\* transfer up to its first await
transfer_start(call) ==
    LET from == get_hashed_key(wallet, call.from_name)
        to == get_hashed_key(wallet, call.to_name)
        c1 == [call EXCEPT !.log = Append(@, <<"transfer", "get_hashed_key">>)]
        c2 == [c1 EXCEPT !.log = Append(@, <<"transfer", "get_hashed_key">>)]
    IN  IF IsErr(from) THEN Fail(c1, from)
        ELSE IF IsErr(to) THEN Fail(c2, to)
        ELSE balance_start([c2 EXCEPT !.from = from[2], !.to = to[2]],
                           call.from_name, "transfer", "query_from")

\* a slip: the second balance read is the balance of `from` again
transfer_resume_from_rereads(call, response) ==
    LET current_from_balance == read_balance_result(response)
        c1 == Answered(call, "balance", response)
    IN  IF IsErr(current_from_balance) THEN Fail(c1, current_from_balance)
        ELSE balance_start(
                 [c1 EXCEPT !.current_from_balance = current_from_balance[2]],
                 call.from_name, "transfer", "query_to")

\* transfer from the answer of its first query_state up to the second
transfer_resume_from(call, response) ==
    LET current_from_balance == read_balance_result(response)
        c1 == Answered(call, "balance", response)
    IN  IF IsErr(current_from_balance) THEN Fail(c1, current_from_balance)
        ELSE balance_start(
                 [c1 EXCEPT !.current_from_balance = current_from_balance[2]],
                 call.to_name, "transfer", "query_to")

\* transfer from the answer of its second query_state up to
\* `submit_solution(..).await`
transfer_resume_to(call, response, wallet_ok) ==
    LET current_to_balance == read_balance_result(response)
        c1 == Answered(call, "balance", response)
        data_to_sign == transfer_data_to_sign(call.from, call.to, call.amount)
        signature == sign_data(wallet, call.from_name, data_to_sign, wallet_ok)
        c2 == [c1 EXCEPT !.current_to_balance = current_to_balance[2],
                         !.data_to_sign = data_to_sign,
                         !.signed_as = call.from_name,
                         !.log = Append(@, <<"transfer", "sign_data">>)]
    IN  IF IsErr(current_to_balance) THEN Fail(c1, current_to_balance)
        ELSE IF IsErr(signature) THEN Fail(c2, signature)
        ELSE [c2 EXCEPT !.signature = signature[2],
                        !.solution =
                            transfer_solution(call.from, call.to, call.amount,
                                signature[2],
                                transfer_new_from_balance(call.current_from_balance,
                                                          call.amount),
                                transfer_new_to_balance(current_to_balance[2],
                                                        call.amount)),
                        !.pc = "submit",
                        !.log = @ \o <<<<"transfer", "Solution">>,
                                       <<"transfer", "submit_solution">>>>]

\* the value a call returns once submit_solution has returned Ok
ok_value(call) == IF call.kind = "increment" THEN call.new_count ELSE 0

\* a slip: the answer of submit_solution is not looked at
submit_resume_unchecked(call, response) ==
    [call EXCEPT !.pc = "done",
                 !.log = Append(@, <<call.kind, "submit_solution returned">>),
                 !.result = Ok(ok_value(call))]

\* increment, mint and transfer from the answer of submit_solution to the return
submit_resume(call, response) ==
    [call EXCEPT !.pc = "done",
                 !.log = Append(@, <<call.kind, "submit_solution returned">>),
                 !.result = IF IsOk(response) THEN Ok(ok_value(call))
                            ELSE response]

-----------------------------------------------------------------------------
(* Actions *)

Ledger == <<state, pool, applied, rejected, written, others>>

Begin(call) ==
    /\ calls' = Append(calls, call)
    /\ UNCHANGED <<Ledger, wallet>>

Continue(c, call) ==
    /\ calls' = [calls EXCEPT ![c] = call]
    /\ UNCHANGED <<Ledger, wallet>>

increment(limit) ==
    /\ Len(calls) < limit
    /\ Begin(increment_start(NewCall("increment", "", "", 0)))

read_current_counter ==
    /\ Len(calls) < MaxCalls
    /\ Begin(read_current_counter_start(NewCall("read_current_counter", "", "", 0),
                                        "caller"))

balance ==
    /\ Len(calls) < MaxCalls
    /\ \E account_name \in Names :
          Begin(balance_start(NewCall("balance", "", account_name, 0),
                              account_name, "caller", "query"))

mint ==
    /\ Len(calls) < MaxCalls
    /\ \E to_name \in Names, amount \in Amounts :
          Begin(mint_start(NewCall("mint", "", to_name, amount)))

transfer ==
    /\ Len(calls) < MaxCalls
    /\ \E from_name \in Names, to_name \in Names, amount \in Amounts :
          Begin(transfer_start(NewCall("transfer", from_name, to_name, amount)))

\* query_state answers a call waiting for it
QueryReturns(c) ==
    /\ calls[c].pc \in {"query", "query_from", "query_to"}
    /\ \E response \in QueryResponses(calls[c].slot), wallet_ok \in BOOLEAN :
          Continue(c,
              CASE calls[c].kind = "increment" -> increment_resume(calls[c], response)
                [] calls[c].kind = "read_current_counter" ->
                       read_current_counter_resume(calls[c], response)
                [] calls[c].kind = "balance" -> balance_resume(calls[c], response)
                [] calls[c].kind = "mint" -> mint_resume(calls[c], response, wallet_ok)
                [] calls[c].kind = "transfer" /\ calls[c].pc = "query_from" ->
                       transfer_resume_from(calls[c], response)
                [] calls[c].kind = "transfer" /\ calls[c].pc = "query_to" ->
                       transfer_resume_to(calls[c], response, wallet_ok))

\* submit_solution answers a call waiting for it: the solution is in the
\* ledger's pool, or the submission failed
SubmitReturns(c) ==
    /\ calls[c].pc = "submit"
    /\ \E response \in SubmitResponses :
          /\ calls' = [calls EXCEPT ![c] = submit_resume(calls[c], response)]
          /\ pool' = IF IsOk(response)
                     THEN pool \cup {[id |-> c, solution |-> calls[c].solution]}
                     ELSE pool
    /\ UNCHANGED <<state, applied, rejected, written, others, wallet>>

\* the ledger accepts another client's solution, which sets one slot
OtherWrites ==
    /\ others < MaxOthers
    /\ \E slot \in Slots, value \in OtherValues :
          /\ state' = [state EXCEPT ![slot] = value]
          /\ written' = written \cup {slot}
    /\ others' = others + 1
    /\ applied' = Append(applied, 0)
    /\ UNCHANGED <<pool, calls, wallet, rejected>>

\* the ledger accepts a pooled solution and applies all its mutations
LedgerApplies ==
    \E p \in pool :
        /\ state' = ApplySolution(state, p.solution.data)
        /\ pool' = pool \ {p}
        /\ applied' = Append(applied, p.id)
        /\ written' = written \cup SlotsOf(p.solution)
        /\ UNCHANGED <<calls, wallet, rejected, others>>

\* the ledger rejects a pooled solution
LedgerRejects ==
    \E p \in pool :
        /\ pool' = pool \ {p}
        /\ rejected' = rejected \cup {p.id}
        /\ UNCHANGED <<state, calls, wallet, applied, written, others>>

Init ==
    /\ state = [s \in Slots |-> <<>>]
    /\ pool = {}
    /\ calls = <<>>
    /\ wallet = TestWallet
    /\ applied = <<>>
    /\ rejected = {}
    /\ written = {}
    /\ others = 0

Next ==
    \/ increment(MaxCalls)
    \/ read_current_counter
    \/ balance
    \/ mint
    \/ transfer
    \/ \E c \in DOMAIN calls : QueryReturns(c)
    \/ \E c \in DOMAIN calls : SubmitReturns(c)
    \/ OtherWrites
    \/ LedgerApplies
    \/ LedgerRejects

Spec == Init /\ [][Next]_vars

\* the counter application alone, with no other client of its contract
NextCounter ==
    \/ increment(MaxIncrements)
    \/ \E c \in DOMAIN calls : QueryReturns(c)
    \/ \E c \in DOMAIN calls : SubmitReturns(c)
    \/ LedgerApplies
    \/ LedgerRejects

SpecCounter == Init /\ [][NextCounter]_vars

-----------------------------------------------------------------------------
(* What a reader sees *)

\* the value balance() returns for an account when its query succeeds now
BalanceNow(account) == read_balance_result(Ok(state[BalanceSlot(account)]))

\* the value read_current_counter() returns when its query succeeds now
CounterNow == read_counter_result(Ok(state[CounterSlot]))

\* the calls whose solution reached the ledger
Submitted == {p.id : p \in pool} \cup {applied[i] : i \in DOMAIN applied} \cup rejected

LastApplied == IF applied = <<>> THEN 0 ELSE applied[Len(applied)]

Steps(call) == {call.log[i][2] : i \in DOMAIN call.log}

ReturnedOk(call) == call.pc = "done" /\ IsOk(call.result)

\* every call made so far is an increment that returned Ok, started after
\* the calls before it had returned, and the ledger has applied every
\* solution
SequentialIncrementsApplied ==
    /\ \A c \in DOMAIN calls :
          calls[c].kind = "increment" /\ ReturnedOk(calls[c]) /\ calls[c].solo
    /\ others = 0
    /\ pool = {}
    /\ rejected = {}

-----------------------------------------------------------------------------
(* C1 *)

\* C1 as stated: from an unset counter and with no other client, N
\* increment() calls, each returned before the next starts, leave the
\* counter equal to N once the ledger has applied their solutions.
C1_SequentialIncrementsYieldN ==
    SequentialIncrementsApplied => CounterNow = Ok(Len(calls))

\* C1 as amended: from an unset counter and with no other client, N
\* increment() calls that return Ok, each started only after the calls before
\* it have returned and the ledger has applied their solutions, leave the
\* counter equal to N once the last solution is applied.
C1_SettledIncrementsYieldN ==
    (SequentialIncrementsApplied /\ \A c \in DOMAIN calls : calls[c].settled)
        => CounterNow = Ok(Len(calls))

C1_Witness ==
    /\ SequentialIncrementsApplied
    /\ \A c \in DOMAIN calls : calls[c].settled
    /\ Len(calls) = MaxIncrements
    /\ CounterNow = Ok(MaxIncrements)

-----------------------------------------------------------------------------
(* C2 *)

\* the balance the reader reported to call c in its i-th query
BalanceRead(c, i) == read_balance_result(calls[c].responses[i])[2]

\* C2: in the state the ledger reaches by applying the solution of
\* mint(to, amount), balance(to) is the balance of `to` that the ledger
\* reported to that mint, plus amount.
C2_MintRoundTrip ==
    \A c \in DOMAIN calls :
        (calls[c].kind = "mint" /\ LastApplied = c)
            => BalanceNow(calls[c].to) = Ok(BalanceRead(c, 1) + calls[c].amount)

C2_Witness ==
    \E c \in DOMAIN calls :
        /\ calls[c].kind = "mint" /\ LastApplied = c
        /\ calls[c].amount = 2
        /\ BalanceRead(c, 1) = 1
        /\ BalanceNow(calls[c].to) = Ok(3)

-----------------------------------------------------------------------------
(* C3 *)

\* the ledger applies the solution of call c in this step
Applies(c) == c \in DOMAIN calls /\ applied' = Append(applied, c)

\* the balances call c was given are the ledger's balances now
Fresh(c) ==
    /\ BalanceNow(calls[c].from) = Ok(BalanceRead(c, 1))
    /\ BalanceNow(calls[c].to) = Ok(BalanceRead(c, 2))

\* C3: when the ledger applies the solution of transfer(from, to, amount),
\* the balances being still the ones the transfer read and amount not
\* exceeding the balance of `from`, the step takes amount off balance(from),
\* adds amount to balance(to), and leaves balance(from) + balance(to) as it
\* was.
C3_TransferConservation ==
    [][\A c \in DOMAIN calls :
          (/\ Applies(c)
           /\ calls[c].kind = "transfer"
           /\ Fresh(c)
           /\ calls[c].amount <= BalanceRead(c, 1))
              => /\ BalanceNow(calls[c].from)'
                        = Ok(BalanceRead(c, 1) - calls[c].amount)
                 /\ BalanceNow(calls[c].to)'
                        = Ok(BalanceRead(c, 2) + calls[c].amount)
                 /\ BalanceNow(calls[c].from)'[2] + BalanceNow(calls[c].to)'[2]
                        = BalanceRead(c, 1) + BalanceRead(c, 2)]_vars

-----------------------------------------------------------------------------
(* C4 *)

\* two mint calls to the same account that were both given the same balance
ConflictingMints(c, d) ==
    /\ c # d
    /\ calls[c].kind = "mint" /\ calls[d].kind = "mint"
    /\ calls[c].to = calls[d].to
    /\ c \in Submitted /\ d \in Submitted
    /\ calls[c].responses[1] = calls[d].responses[1]

\* the mutation a mint or increment call proposes
Proposed(c) == calls[c].solution.data[1].state_mutations[1]

\* C4: nothing in the client keeps two mint calls to one account apart:
\* when both are given the same balance b, they propose b + amount1 and
\* b + amount2 for the same slot, and once the ledger has applied both, one
\* right after the other, the balance is b plus the amount of the one applied
\* last, not b + amount1 + amount2 (unless the other amount is 0).
C4_ConcurrentMintsConflict ==
    \A c \in DOMAIN calls, d \in DOMAIN calls :
        ConflictingMints(c, d) =>
            /\ Proposed(c).key = Proposed(d).key
            /\ Proposed(c).value = <<BalanceRead(c, 1) + calls[c].amount>>
            /\ Proposed(d).value = <<BalanceRead(c, 1) + calls[d].amount>>
            /\ (Len(applied) >= 2 /\ LastApplied = d
                    /\ applied[Len(applied) - 1] = c)
                   => /\ BalanceNow(calls[d].to)
                             = Ok(BalanceRead(c, 1) + calls[d].amount)
                      /\ (calls[c].amount # 0
                             => BalanceNow(calls[d].to)
                                    # Ok(BalanceRead(c, 1) + calls[c].amount
                                             + calls[d].amount))

C4_Witness ==
    \E c \in DOMAIN calls, d \in DOMAIN calls :
        /\ ConflictingMints(c, d)
        /\ calls[c].amount # calls[d].amount
        /\ calls[c].amount # 0 /\ calls[d].amount # 0
        /\ BalanceRead(c, 1) = 1
        /\ applied = <<0, c, d>>
        /\ BalanceNow(calls[d].to) = Ok(1 + calls[d].amount)

-----------------------------------------------------------------------------
(* C5 *)

\* call c was given, by some query, a value of two words or more
ReadMalformed(call) ==
    \E i \in DOMAIN call.responses :
        IsOk(call.responses[i]) /\ Len(call.responses[i][2]) >= 2

\* C5: a call that is given a value of two words or more by query_state
\* returns an error at once, never a word of that value: that query is its
\* last step, it builds and submits no solution, and none of its solutions
\* ever reaches the ledger.
C5_MalformedStateIsFatal ==
    \A c \in DOMAIN calls :
        ReadMalformed(calls[c]) =>
            /\ calls[c].pc = "done"
            /\ calls[c].result = Err("Expected one word")
            /\ calls[c].log[Len(calls[c].log)][2] = "query_state returned"
            /\ IsOk(calls[c].responses[Len(calls[c].responses)])
            /\ Len(calls[c].responses[Len(calls[c].responses)][2]) >= 2
            /\ "submit_solution" \notin Steps(calls[c])
            /\ calls[c].solution = NoSolution
            /\ c \notin Submitted

C5_Witness ==
    /\ \E c \in DOMAIN calls :
          calls[c].kind = "balance" /\ ReadMalformed(calls[c])
    /\ \E c \in DOMAIN calls :
          /\ calls[c].kind = "transfer" /\ ReadMalformed(calls[c])
          /\ Len(calls[c].responses) = 2

-----------------------------------------------------------------------------
(* C6 *)

Reads == {"read_current_counter", "balance"}

\* C6: while no applied solution has written a slot, the reader's value for
\* it is 0: balance() and read_current_counter() return Ok(0) when the query
\* succeeds (and no other value in any case), and increment, mint and
\* transfer compute from 0.  An empty value reads as 0, a one-word value as
\* that word.
C6_UntouchedReadsZero ==
    /\ \A a \in AccountIds : BalanceSlot(a) \notin written => BalanceNow(a) = Ok(0)
    /\ CounterSlot \notin written => CounterNow = Ok(0)
    /\ \A s \in Slots :
          /\ Len(state[s]) = 0 => read_balance_result(Ok(state[s])) = Ok(0)
          /\ Len(state[s]) = 1 => read_balance_result(Ok(state[s])) = Ok(state[s][1])
          /\ Len(state[s]) = 0 => read_counter_result(Ok(state[s])) = Ok(0)
          /\ Len(state[s]) = 1 => read_counter_result(Ok(state[s])) = Ok(state[s][1])
    /\ \A c \in DOMAIN calls :
          /\ \A i \in DOMAIN calls[c].responses :
                (calls[c].queried[i] \notin written /\ IsOk(calls[c].responses[i]))
                    => /\ calls[c].responses[i][2] = <<>>
                       /\ calls[c].kind \in Reads => calls[c].result = Ok(0)
                       /\ calls[c].kind = "increment" =>
                              calls[c].new_count = 1 /\ Proposed(c).value = <<1>>
                       /\ (calls[c].kind = "mint" /\ calls[c].solution # NoSolution)
                              => Proposed(c).value = <<calls[c].amount>>
                       /\ (calls[c].kind = "transfer" /\ calls[c].solution # NoSolution)
                              => calls[c].solution.data[1].state_mutations[i].value
                                     = <<IF i = 1 THEN 0 - calls[c].amount
                                         ELSE calls[c].amount>>
          /\ (calls[c].kind \in Reads /\ calls[c].responses # <<>>
                  /\ calls[c].queried[1] \notin written)
                => calls[c].result \in {Ok(0)} \cup {Err(e) : e \in ClientErrors}

C6_Witness ==
    /\ written # {}
    /\ \E c \in DOMAIN calls :
          /\ calls[c].kind = "balance" /\ calls[c].result = Ok(0)
          /\ calls[c].slot \notin written
    /\ \E c \in DOMAIN calls :
          /\ calls[c].kind = "read_current_counter" /\ calls[c].result = Ok(0)
          /\ calls[c].slot \notin written

-----------------------------------------------------------------------------
(* C7 *)

AccountOf(account_name) == get_hashed_key(wallet, account_name)[2]

\* the nine words of the wallet's signature by account_name over data
SignatureWords(account_name, data) ==
    encode_signature([scheme |-> wallet[account_name].scheme,
                      signer |-> wallet[account_name].key,
                      message |-> data])

Variables(c) == calls[c].solution.data[1].decision_variables

\* C7: the words handed to the wallet for signing are, for mint, the 4
\* words of to_name's AccountId and then amount (5 words), and for transfer
\* the 4 words of from_name's AccountId, the 4 words of to_name's, and then
\* amount (9 words); the to/from/amount decision variables of the solution
\* are the words that were signed, and its signature is the one made over them.
C7_SignedDataOrder ==
    \A c \in DOMAIN calls :
        LET call == calls[c]
            data == call.data_to_sign
        IN  /\ (call.kind = "mint" /\ "sign_data" \in Steps(call)) =>
                  /\ Len(data) = 5
                  /\ SubSeq(data, 1, 4) = AccountOf(call.to_name)
                  /\ data[5] = call.amount
                  /\ call.solution # NoSolution =>
                        /\ Len(Variables(c)) = 3
                        /\ Variables(c)[1] = SubSeq(data, 1, 4)
                        /\ Variables(c)[2] = <<data[5]>>
                        /\ Variables(c)[3] = SignatureWords(call.signed_as, data)
            /\ (call.kind = "transfer" /\ "sign_data" \in Steps(call)) =>
                  /\ Len(data) = 9
                  /\ SubSeq(data, 1, 4) = AccountOf(call.from_name)
                  /\ SubSeq(data, 5, 8) = AccountOf(call.to_name)
                  /\ data[9] = call.amount
                  /\ call.solution # NoSolution =>
                        /\ Len(Variables(c)) = 4
                        /\ Variables(c)[1] = SubSeq(data, 1, 4)
                        /\ Variables(c)[2] = SubSeq(data, 5, 8)
                        /\ Variables(c)[3] = <<data[9]>>
                        /\ Variables(c)[4] = SignatureWords(call.signed_as, data)
            /\ (call.solution # NoSolution /\ call.kind \in {"mint", "transfer"})
                  => "sign_data" \in Steps(call)

C7_Witness ==
    /\ \E c \in DOMAIN calls :
          /\ calls[c].kind = "mint" /\ c \in Submitted
          /\ calls[c].amount = 2
    /\ \E c \in DOMAIN calls :
          /\ calls[c].kind = "transfer" /\ c \in Submitted
          /\ calls[c].from # calls[c].to
          /\ calls[c].amount = 1

-----------------------------------------------------------------------------
(* C8 *)

LastStep(call) == call.log[Len(call.log)][2]

\* the call stopped where it is: it returned err, built and submitted
\* nothing, and nothing of it ever reached the ledger
StoppedWith(c, err, step) ==
    /\ calls[c].pc = "done"
    /\ calls[c].result = err
    /\ LastStep(calls[c]) = step
    /\ calls[c].solution = NoSolution
    /\ "submit_solution" \notin Steps(calls[c])
    /\ c \notin Submitted

\* the first account name of the call that the wallet cannot resolve
Unresolved(call) ==
    IF call.kind = "transfer" /\ IsErr(get_hashed_key(wallet, call.from_name))
    THEN call.from_name ELSE call.to_name

\* C8: a call returns the first error it meets and does nothing after it:
\* when identity resolution fails it makes no query, when a query fails (or
\* its value is malformed) it makes no further query and does not sign, when
\* signing fails it builds nothing; in each case submit_solution is not
\* invoked and the ledger never sees a solution of that call.
C8_FirstErrorReturned ==
    \A c \in DOMAIN calls :
        LET call == calls[c]
            n == Len(call.responses)
        IN  /\ (call.kind \in {"mint", "transfer", "balance"}
                    /\ IsErr(get_hashed_key(wallet, Unresolved(call))))
                  => /\ StoppedWith(c, get_hashed_key(wallet, Unresolved(call)),
                                    "get_hashed_key")
                     /\ call.responses = <<>> /\ call.queried = <<>>
                     /\ "sign_data" \notin Steps(call)
            /\ \A i \in 1..n :
                  (IsErr(call.responses[i]) \/ Len(call.responses[i][2]) >= 2) =>
                     /\ i = n
                     /\ Len(call.queried) = n
                     /\ "sign_data" \notin Steps(call)
                     /\ call.kind \notin Reads =>
                           StoppedWith(c,
                               IF IsErr(call.responses[i]) THEN call.responses[i]
                               ELSE Err("Expected one word"),
                               "query_state returned")
                     /\ call.kind \in Reads =>
                           /\ call.pc = "done"
                           /\ call.result = IF IsErr(call.responses[i])
                                            THEN call.responses[i]
                                            ELSE Err("Expected one word")
            /\ ("sign_data" \in Steps(call) /\ call.signature = <<>>)
                  => StoppedWith(c, Err("sign_words"), "sign_data")
            /\ (IsErr(call.result) /\ "submit_solution returned" \notin Steps(call))
                  => /\ c \notin Submitted
                     /\ "submit_solution" \notin Steps(call)
            /\ c \in Submitted => ReturnedOk(call)

C8_Witness ==
    /\ \E c \in DOMAIN calls :
          /\ calls[c].kind = "transfer"
          /\ calls[c].result \in {Err(e) : e \in ClientErrors}
          /\ Len(calls[c].responses) = 2
    /\ \E c \in DOMAIN calls :
          /\ calls[c].kind = "mint"
          /\ calls[c].result = Err("sign_words")

-----------------------------------------------------------------------------
(* C9 *)

At(call, step) == {i \in DOMAIN call.log : call.log[i][2] = step}

Before(call, first, second) ==
    \A i \in At(call, first), j \in At(call, second) : i < j

\* the steps of one call are taken one after the other: a query is answered
\* before anything else is done, every query is answered before the signing,
\* the signing is done before the solution is built and submitted, nothing
\* is signed or submitted twice, and a call that returns Ok has signed once
\* (not at all for increment) and submitted once
OrderedSteps(call) ==
    /\ \A i \in At(call, "query_state") :
          i < Len(call.log) => call.log[i + 1][2] = "query_state returned"
    /\ Len(call.responses) <= Len(call.queried)
    /\ Len(call.queried) <= Len(call.responses) + 1
    /\ Before(call, "query_state", "sign_data")
    /\ Before(call, "query_state returned", "sign_data")
    /\ Before(call, "query_state returned", "submit_solution")
    /\ Before(call, "sign_data", "Solution")
    /\ Before(call, "sign_data", "submit_solution")
    /\ Before(call, "Solution", "submit_solution")
    /\ Before(call, "submit_solution", "submit_solution returned")
    /\ Cardinality(At(call, "sign_data")) <= 1
    /\ Cardinality(At(call, "submit_solution")) <= 1
    /\ call.kind = "increment" => At(call, "sign_data") = {}
    /\ ReturnedOk(call) =>
          /\ Cardinality(At(call, "submit_solution")) = 1
          /\ Cardinality(At(call, "sign_data"))
                 = IF call.kind = "increment" THEN 0 ELSE 1
          /\ Cardinality(At(call, "query_state"))
                 = IF call.kind = "transfer" THEN 2 ELSE 1
          /\ Len(call.responses) = Len(call.queried)

Calls == {"increment", "mint", "transfer"}

SlotsToQuery(call) ==
    IF call.kind = "increment" THEN <<CounterSlot>>
    ELSE IF call.kind = "mint" THEN <<BalanceSlot(AccountOf(call.to_name))>>
    ELSE <<BalanceSlot(AccountOf(call.from_name)),
           BalanceSlot(AccountOf(call.to_name))>>

-----------------------------------------------------------------------------
(* C10 *)

\* the functions that take a step of the call
Takers(call, step) == {call.log[i][1] : i \in At(call, step)}

\* a solution of one unit, for the given predicate, with n mutations
Complete(solution, predicate, n) ==
    /\ Len(solution.data) = 1
    /\ solution.data[1].predicate_to_solve = predicate
    /\ solution.data[1].transient_data = <<>>
    /\ Len(solution.data[1].state_mutations) = n
    /\ \A j \in 1..n : Len(solution.data[1].state_mutations[j].value) = 1

\* C10 as stated: the function that builds the solution of a call returns a
\* complete Solution and does not itself invoke submit_solution.
C10_BuildersDoNotSubmit ==
    \A c \in DOMAIN calls :
        Takers(calls[c], "Solution") \cap Takers(calls[c], "submit_solution") = {}

\* C10 as amended: create_solution, which builds the solution of increment,
\* returns a complete Solution and submits nothing, increment submits it; the
\* solutions of mint and transfer are built, complete, inside mint and
\* transfer, which invoke submit_solution themselves once the solution is
\* built.
C10_OnlyCreateSolutionIsABuilder ==
    \A c \in DOMAIN calls :
        ("Solution" \in Steps(calls[c])) =>
            /\ calls[c].kind = "increment" =>
                  /\ Takers(calls[c], "Solution") = {"create_solution"}
                  /\ Takers(calls[c], "submit_solution") = {"increment"}
                  /\ "create_solution" \notin Takers(calls[c], "query_state")
                  /\ Complete(calls[c].solution, IncrementPredicate, 1)
                  /\ calls[c].solution.data[1].decision_variables = <<>>
            /\ calls[c].kind = "mint" =>
                  /\ Takers(calls[c], "Solution") = {"mint"}
                  /\ Takers(calls[c], "submit_solution") = {"mint"}
                  /\ Complete(calls[c].solution, MintPredicate, 1)
                  /\ Len(calls[c].solution.data[1].decision_variables) = 3
            /\ calls[c].kind = "transfer" =>
                  /\ Takers(calls[c], "Solution") = {"transfer"}
                  /\ Takers(calls[c], "submit_solution") = {"transfer"}
                  /\ Complete(calls[c].solution, TransferPredicate, 2)
                  /\ Len(calls[c].solution.data[1].decision_variables) = 4
            /\ Before(calls[c], "Solution", "submit_solution")

C10_Witness ==
    /\ \E c \in DOMAIN calls : calls[c].kind = "increment" /\ c \in Submitted
    /\ \E c \in DOMAIN calls : calls[c].kind = "transfer" /\ c \in Submitted

-----------------------------------------------------------------------------
(* C11 *)

\* An async fn makes a future; the caller may drop it while it waits at an
\* `.await` (query_state or submit_solution), and the call then runs no
\* further.  The wallet calls are synchronous: there is no await, and so no
\* drop, at the signing.
abandon(call, delivered) ==
    [call EXCEPT !.pc = "dropped",
                 !.log = Append(@, <<"caller", IF delivered
                                               THEN "dropped after delivery"
                                               ELSE "dropped">>)]

\* the caller drops call c.  A call dropped while submit_solution is in
\* flight may have had its solution delivered to the ledger already.
Abandon(c) ==
    /\ calls[c].pc \in {"query", "query_from", "query_to", "submit"}
    /\ \E delivered \in BOOLEAN :
          /\ delivered => calls[c].pc = "submit"
          /\ calls' = [calls EXCEPT ![c] = abandon(calls[c], delivered)]
          /\ pool' = IF delivered
                     THEN pool \cup {[id |-> c, solution |-> calls[c].solution]}
                     ELSE pool
    /\ UNCHANGED <<state, applied, rejected, written, others, wallet>>

\* increment, mint and transfer calls that their caller may drop
NextAbandon ==
    \/ increment(MaxCalls)
    \/ mint
    \/ transfer
    \/ \E c \in DOMAIN calls : QueryReturns(c)
    \/ \E c \in DOMAIN calls : SubmitReturns(c)
    \/ \E c \in DOMAIN calls : Abandon(c)
    \/ OtherWrites
    \/ LedgerApplies
    \/ LedgerRejects

SpecAbandon == Init /\ [][NextAbandon]_vars

\* the ledger accepts a solution in this step: its own client's, which was in
\* the pool, or another client's
Accepts ==
    \/ \E p \in pool : applied' = Append(applied, p.id) /\ pool' = pool \ {p}
    \/ applied' = Append(applied, 0) /\ others' = others + 1

\* the caller drops call c in this step
Drops(c) == calls[c].pc # "dropped" /\ calls'[c].pc = "dropped"

\* C11: a step changes a ledger slot only if the ledger accepts a submitted
\* solution in it; a step in which a call is dropped, and every step of a
\* call, changes no slot, and a call dropped before its solution was
\* delivered never has a solution at the ledger; the step that applies the
\* solution of a transfer sets the balance of `to`, and that of `from` when
\* it is another account, to the two values proposed, and no other slot.
C11_OnlyAcceptedSolutionsChangeState ==
    [][/\ state' # state => Accepts
       /\ calls' # calls => state' = state
       /\ \A c \in DOMAIN calls :
             /\ Drops(c) => state' = state
             /\ (calls[c].pc = "dropped" /\ LastStep(calls[c]) = "dropped")
                   => c \notin Submitted /\ c \notin Submitted'
             /\ (Applies(c) /\ calls[c].kind = "transfer") =>
                   /\ state'[BalanceSlot(calls[c].to)]
                          = <<calls[c].current_to_balance + calls[c].amount>>
                   /\ calls[c].from # calls[c].to =>
                         state'[BalanceSlot(calls[c].from)]
                             = <<calls[c].current_from_balance - calls[c].amount>>
                   /\ \A s \in Slots :
                         s \notin {BalanceSlot(calls[c].from),
                                   BalanceSlot(calls[c].to)}
                             => state'[s] = state[s]]_vars

\* a call was dropped while submit_solution was in flight and undelivered,
\* and a transfer between two accounts has been applied after another
\* client's solution
C11_Witness ==
    /\ \E c \in DOMAIN calls :
          /\ calls[c].pc = "dropped" /\ LastStep(calls[c]) = "dropped"
          /\ "submit_solution" \in Steps(calls[c])
    /\ \E c \in DOMAIN calls :
          /\ calls[c].kind = "transfer" /\ LastApplied = c
          /\ calls[c].from # calls[c].to
          /\ calls[c].amount = 1
          /\ others = 1

-----------------------------------------------------------------------------
(* C12 *)

\* query_state gave the call a value of at most one word in its i-th query
GoodResponse(call, i) ==
    IsOk(call.responses[i]) /\ Len(call.responses[i][2]) <= 1

\* C12: transfer checks no balance: once both balances are read it goes on
\* to sign whatever the amount, and once signed it builds and submits the
\* solution whose mutations set `from` to the balance read for it minus
\* amount, negative when amount is larger, and `to` to the balance read for
\* it plus amount; it fails only by submit_solution failing.
C12_NoSufficientFundsCheck ==
    \A c \in DOMAIN calls :
        LET call == calls[c]
        IN  (/\ call.kind = "transfer"
             /\ Len(call.responses) = 2
             /\ GoodResponse(call, 1) /\ GoodResponse(call, 2))
                => /\ "sign_data" \in Steps(call)
                   /\ call.signature # <<>> =>
                         /\ call.solution.data[1].state_mutations
                                = <<[key |-> <<0>> \o call.from,
                                     value |-> <<BalanceRead(c, 1) - call.amount>>],
                                    [key |-> <<0>> \o call.to,
                                     value |-> <<BalanceRead(c, 2) + call.amount>>]>>
                         /\ "submit_solution" \in Steps(call)
                         /\ call.result \in {Pending, Ok(0)}
                                                \cup {Err(e) : e \in ClientErrors}
                         /\ c \in Submitted <=> call.result = Ok(0)

\* a transfer of more than the balance read for `from` was submitted and
\* applied, and the balance of `from` is negative
C12_Witness ==
    \E c \in DOMAIN calls :
        /\ calls[c].kind = "transfer" /\ LastApplied = c
        /\ calls[c].from # calls[c].to
        /\ BalanceRead(c, 1) = 1 /\ calls[c].amount = 2
        /\ state[BalanceSlot(calls[c].from)] = <<0 - 1>>

-----------------------------------------------------------------------------
(* C13 *)

\* the word a stored value of at most one word stands for
WordOf(words) == IF words = <<>> THEN 0 ELSE words[1]

\* the number of queries an increment, mint or transfer call makes
QueriesOf(call) == IF call.kind = "transfer" THEN 2 ELSE 1

\* the values a call proposes, as computed from the answers to its own queries
ProposedFromOwnReads(call) ==
    IF call.kind = "increment"
    THEN <<<<WordOf(call.responses[1][2]) + 1>>>>
    ELSE IF call.kind = "mint"
    THEN <<<<WordOf(call.responses[1][2]) + call.amount>>>>
    ELSE <<<<WordOf(call.responses[1][2]) - call.amount>>,
           <<WordOf(call.responses[2][2]) + call.amount>>>>

\* C13: the client keeps no value it has read: every answer a call is given
\* by query_state is the ledger's value of the queried slot at the time of
\* the answer, and a call that has built a solution has made its queries
\* itself, after it started and before building, and proposes the values
\* computed from the answers to those queries.
C13_NoCachedReads ==
    [][\A c \in DOMAIN calls' :
          LET call == calls'[c]
              n == Len(call.responses)
          IN  call.kind \in Calls =>
                /\ (/\ c \in DOMAIN calls
                    /\ n = Len(calls[c].responses) + 1
                    /\ IsOk(call.responses[n]))
                      => call.responses[n][2] = state[call.queried[n]]
                /\ call.solution # NoSolution =>
                      /\ n = QueriesOf(call)
                      /\ Len(call.queried) = n
                      /\ Cardinality(At(call, "query_state")) = n
                      /\ Cardinality(At(call, "query_state returned")) = n
                      /\ Before(call, "query_state returned", "Solution")
                      /\ \A i \in 1..n : GoodResponse(call, i)
                      /\ [j \in 1..n |->
                             call.solution.data[1].state_mutations[j].value]
                            = ProposedFromOwnReads(call)]_vars

\* two increments, the second started after the first returned: the first
\* read 0 and proposed 1, the second read 1 and proposed 2
C13_Witness ==
    /\ Len(calls) = 2
    /\ calls[1].kind = "increment" /\ calls[2].kind = "increment"
    /\ calls[2].solo
    /\ calls[1].responses = <<Ok(<<>>)>> /\ Proposed(1).value = <<1>>
    /\ calls[2].responses = <<Ok(<<1>>)>> /\ Proposed(2).value = <<2>>
    /\ 2 \in Submitted

-----------------------------------------------------------------------------
(* C14 *)

\* the stage at which a call that returned an error stopped
FailedStage(call) ==
    IF LastStep(call) = "get_hashed_key" THEN "identity resolution"
    ELSE IF LastStep(call) = "query_state returned" THEN "state read"
    ELSE IF LastStep(call) = "sign_data" THEN "signing"
    ELSE "submission"

\* C14: the error a failed call returns tells the stage that failed: two
\* calls that failed at different stages (identity resolution, state read,
\* signing, submission) never return the same error.
C14_FailureIdentifiesStage ==
    \A c \in DOMAIN calls, d \in DOMAIN calls :
        (/\ IsErr(calls[c].result) /\ IsErr(calls[d].result)
         /\ FailedStage(calls[c]) # FailedStage(calls[d]))
            => calls[c].result # calls[d].result

-----------------------------------------------------------------------------
(* C15 *)

\* Wallet::insert_key: the test wallet with `name` bound to the Secp256k1
\* key `key`, which may be the key of another name
WalletWith(name, key) ==
    [n \in DOMAIN TestWallet \cup {name} |->
        IF n = name THEN [scheme |-> "Secp256k1", key |-> key]
        ELSE TestWallet[n]]

\* the test wallet, and the wallets in which carol or dave is bound to the
\* key of alice or to the key of bob
Wallets ==
    {TestWallet} \cup {WalletWith(n, k) : n \in {"carol", "dave"}, k \in {1, 2}}

InitResolve ==
    /\ state = [s \in Slots |-> <<>>]
    /\ pool = {}
    /\ calls = <<>>
    /\ wallet \in Wallets
    /\ applied = <<>>
    /\ rejected = {}
    /\ written = {}
    /\ others = 0

\* the calls that resolve account names, on any of the wallets
NextResolve ==
    \/ balance
    \/ mint
    \/ transfer
    \/ \E c \in DOMAIN calls : QueryReturns(c)
    \/ \E c \in DOMAIN calls : SubmitReturns(c)
    \/ LedgerApplies

SpecResolve == InitResolve /\ [][NextResolve]_vars

\* the account a balance slot belongs to
AccountAt(slot) == SubSeq(slot[2], 2, Len(slot[2]))

\* the names a call has resolved, each with the AccountId it was given: by
\* get_hashed_key in mint and transfer, and again in each balance()
Resolved(call) ==
    (IF call.to # <<>> THEN {<<call.to_name, call.to>>} ELSE {})
    \cup (IF call.from # <<>> THEN {<<call.from_name, call.from>>} ELSE {})
    \cup {<<IF call.kind = "transfer" /\ i = 1 THEN call.from_name
            ELSE call.to_name,
            AccountAt(call.queried[i])>> : i \in DOMAIN call.queried}

\* a name is resolved in this step
Resolves ==
    \/ Len(calls') > Len(calls)
    \/ \E c \in DOMAIN calls :
          Len(calls'[c].queried) > Len(calls[c].queried)

\* C15: the AccountId a name resolves to is four words that depend on the
\* key the wallet holds for the name and on nothing else: a name resolved
\* again, in the same call or in another, is given the same AccountId, two
\* names bound to the same key are given the same AccountId, and a step that
\* resolves a name changes neither the wallet nor the ledger.
C15_ResolutionByKeyOnly ==
    [][/\ \A c \in DOMAIN calls', d \in DOMAIN calls' :
             \A p \in Resolved(calls'[c]), q \in Resolved(calls'[d]) :
                 /\ Len(p[2]) = 4
                 /\ p[1] = q[1] => p[2] = q[2]
                 /\ wallet[p[1]] = wallet[q[1]] => p[2] = q[2]
       /\ wallet' = wallet
       /\ Resolves => state' = state /\ pool' = pool]_vars

\* dave is bound to the key of alice; transfer("alice", "dave", ..) resolved
\* both names to one AccountId, and a call for "dave" alone resolved it to it
\* again
C15_Witness ==
    /\ wallet = WalletWith("dave", 1)
    /\ \E c \in DOMAIN calls, d \in DOMAIN calls :
          /\ calls[c].kind = "transfer"
          /\ calls[c].from_name = "alice" /\ calls[c].to_name = "dave"
          /\ calls[c].from = calls[c].to /\ Len(calls[c].from) = 4
          /\ Len(calls[c].queried) = 2
          /\ calls[d].kind = "mint" /\ calls[d].to_name = "dave"
          /\ calls[d].to = calls[c].from
          /\ d \in Submitted

-----------------------------------------------------------------------------
(* C16 *)

\* C16: the solution increment() builds and submits has one unit, for the
\* Increment predicate the App was made with, with no decision variables and
\* no transient data, and one mutation: its key is the key of the slot this
\* call queried, which is the slot every read_current_counter() queries, and
\* its value is the one word current + 1, current being the value this call
\* read.
C16_IncrementSolution ==
    \A c \in DOMAIN calls :
        LET call == calls[c]
            unit == call.solution.data[1]
        IN  (call.kind = "increment" /\ "Solution" \in Steps(call)) =>
                /\ Len(call.solution.data) = 1
                /\ unit.predicate_to_solve = IncrementPredicate
                /\ unit.decision_variables = <<>>
                /\ unit.transient_data = <<>>
                /\ Len(unit.state_mutations) = 1
                /\ Len(call.queried) = 1
                /\ <<unit.predicate_to_solve.contract, unit.state_mutations[1].key>>
                       = call.queried[1]
                /\ \A d \in DOMAIN calls :
                      calls[d].kind = "read_current_counter"
                          => calls[d].queried = call.queried
                /\ GoodResponse(call, 1)
                /\ unit.state_mutations[1].value
                       = <<WordOf(call.responses[1][2]) + 1>>
                /\ \A p \in pool : p.id = c => p.solution = call.solution

\* an increment read 1 and proposed 2, the ledger applied it, and a
\* read_current_counter() then returned 2
C16_Witness ==
    \E c \in DOMAIN calls, d \in DOMAIN calls :
        /\ calls[c].kind = "increment" /\ LastApplied = c
        /\ calls[c].responses = <<Ok(<<1>>)>>
        /\ state[CounterSlot] = <<2>>
        /\ calls[d].kind = "read_current_counter"
        /\ calls[d].result = Ok(2)

-----------------------------------------------------------------------------
(* C17 *)

\* C17: the two mutations of the solution of a transfer whose two names
\* resolve to the same AccountId target two distinct storage keys.
C17_SelfTransferDistinctKeys ==
    \A c \in DOMAIN calls :
        (/\ calls[c].kind = "transfer"
         /\ "Solution" \in Steps(calls[c])
         /\ calls[c].from = calls[c].to)
            => calls[c].solution.data[1].state_mutations[1].key
                   # calls[c].solution.data[1].state_mutations[2].key

-----------------------------------------------------------------------------
(* C18 *)

\* the account name the test wallet binds to MINTER_PRIV_KEY
Minter == "alice"

\* C18: the signature among the decision variables of a solution is made
\* with the key of from_name for a transfer and with the key of to_name for
\* a mint, over the words signed; so the signature of a mint to an account
\* whose key is not the minter's is the recipient's, not the one the minter's
\* key makes over the same words.
C18_SignedByAuthorizedAccount ==
    \A c \in DOMAIN calls :
        LET call == calls[c]
        IN  /\ (call.kind = "transfer" /\ "Solution" \in Steps(call)) =>
                  /\ Variables(c)[4] = SignatureWords(call.from_name, call.data_to_sign)
                  /\ call.from # call.to =>
                        Variables(c)[4] # SignatureWords(call.to_name, call.data_to_sign)
            /\ (call.kind = "mint" /\ "Solution" \in Steps(call)) =>
                  /\ Variables(c)[3] = SignatureWords(call.to_name, call.data_to_sign)
                  /\ wallet[call.to_name].key # wallet[Minter].key =>
                        Variables(c)[3] # SignatureWords(Minter, call.data_to_sign)

\* a mint to bob, who is not the minter, was submitted with bob's signature,
\* and a transfer from bob to alice with bob's signature
C18_Witness ==
    \E c \in DOMAIN calls, d \in DOMAIN calls :
        /\ calls[c].kind = "mint" /\ calls[c].to_name = "bob"
        /\ c \in Submitted
        /\ Variables(c)[3] = SignatureWords("bob", calls[c].data_to_sign)
        /\ Variables(c)[3] # SignatureWords(Minter, calls[c].data_to_sign)
        /\ calls[d].kind = "transfer"
        /\ calls[d].from_name = "bob" /\ calls[d].to_name = Minter
        /\ d \in Submitted

-----------------------------------------------------------------------------
(* C19 *)

\* C19: an increment() that returned Ok(v) read v - 1, proposed the one
\* mutation with the value v, and returned after submit_solution returned
\* without an error, the solution being then with the ledger; the ledger may
\* not have applied it.
C19_IncrementReturnsProposedValue ==
    \A c \in DOMAIN calls :
        (calls[c].kind = "increment" /\ ReturnedOk(calls[c])) =>
            /\ GoodResponse(calls[c], 1)
            /\ calls[c].result = Ok(WordOf(calls[c].responses[1][2]) + 1)
            /\ Len(calls[c].solution.data[1].state_mutations) = 1
            /\ Proposed(c).value = <<calls[c].result[2]>>
            /\ LastStep(calls[c]) = "submit_solution returned"
            /\ c \in Submitted

\* increment() returned Ok(1), its solution is still in the pool, and a
\* read_current_counter() made after the return has returned 0
C19_Witness ==
    /\ Len(calls) = 2
    /\ calls[1].kind = "increment" /\ calls[1].result = Ok(1)
    /\ \E p \in pool : p.id = 1
    /\ calls[2].kind = "read_current_counter" /\ calls[2].solo
    /\ calls[2].result = Ok(0)

=============================================================================
